---- MODULE Spec2Model ----
(***************************************************************************)
(* Checkpoint rotation of assignment3/utils.py: save_checkpoint,           *)
(* get_previous_checkpoints and load_best_checkpoint over one checkpoint   *)
(* directory.  File names and the text of the latest_checkpoint file are   *)
(* sequences of one-character strings, so that writing the list            *)
(* ("\n".join) and reading it back (readlines, strip) are computed as      *)
(* Python computes them.                                                   *)
(***************************************************************************)
EXTENDS Integers, Sequences, FiniteSets, TLC

\* ---------------------------------------------------------------- bounds
\* Number of save_checkpoint calls in one run of the sequential model.
MaxCalls == 3
\* Largest max_keep passed to save_checkpoint.
MaxKeep == 2
\* max_keep goes down to -MaxDrop.
MaxDrop == 1
\* save_checkpoint calls made, one after the other, before the stepwise
\* models start.
PriorSaves == 1

\* ------------------------------------------------------------ characters
NL == "\n"
SP == " "
\* str.strip() removes these from both ends.
Whitespace == {SP, NL}

\* Checkpoint file names without surrounding whitespace.
CkptNames == {<<"a">>, <<"b">>, <<"c">>}
\* A legal file name that starts with a blank.
PaddedNames == {<<SP, "a">>}
\* filepath.parent.joinpath("best.ckpt")
BestName == <<"b", "e", "s", "t", ".", "c", "k", "p", "t">>
\* The opaque state_dict values.
States == {1, 2}
\* The value load_best_checkpoint returns when best.ckpt is missing.
None == 0
\* The max_keep values passed.
Keeps == (0 - MaxDrop)..MaxKeep

\* -------------------------------------------------------- Python helpers
Min(x, y) == IF x < y THEN x ELSE y
Max(x, y) == IF x > y THEN x ELSE y

\* s[k:]
SliceFrom(s, k) ==
    LET start == IF k >= 0 THEN Min(k, Len(s)) ELSE Max(Len(s) + k, 0)
    IN  SubSeq(s, start + 1, Len(s))

\* A slice end that takes a negative k for 0.
SliceToClamped(s, k) == SubSeq(s, 1, Min(Max(k, 0), Len(s)))

\* s[:k]
SliceTo(s, k) ==
    LET stop == IF k >= 0 THEN Min(k, Len(s)) ELSE Max(Len(s) + k, 0)
    IN  SubSeq(s, 1, stop)

\* x in s, for a list s
In(x, s) == \E i \in 1..Len(s) : s[i] = x

RECURSIVE Join(_, _)
\* sep.join(list): the concatenation of the strings with sep between them
Join(sep, list) ==
    IF Len(list) = 0 THEN <<>>
    ELSE IF Len(list) = 1 THEN list[1]
    ELSE list[1] \o <<sep>> \o Join(sep, Tail(list))

RECURSIVE ReadLines(_)
\* fp.readlines(): the lines of the text, each with its line end
ReadLines(text) ==
    IF Len(text) = 0 THEN <<>>
    ELSE IF \E i \in 1..Len(text) : text[i] = NL
         THEN LET i == CHOOSE i \in 1..Len(text) :
                           /\ text[i] = NL
                           /\ \A j \in 1..(i - 1) : text[j] # NL
              IN  <<SubSeq(text, 1, i)>> \o ReadLines(SubSeq(text, i + 1, Len(text)))
         ELSE <<text>>

RECURSIVE LStrip(_)
LStrip(s) ==
    IF Len(s) > 0 /\ s[1] \in Whitespace THEN LStrip(Tail(s)) ELSE s

RECURSIVE RStrip(_)
RStrip(s) ==
    IF Len(s) > 0 /\ s[Len(s)] \in Whitespace
    THEN RStrip(SubSeq(s, 1, Len(s) - 1)) ELSE s

\* str.strip()
Strip(s) == RStrip(LStrip(s))

\* -------------------------------------------------------- the directory
\* dir: the directory exists; files: name -> state_dict of the snapshot
\* files (best.ckpt among them); hasList, list: the latest_checkpoint file
\* and its text.
EmptyFS == [dir |-> FALSE, files |-> <<>>, hasList |-> FALSE, list |-> <<>>]

Exists(fs, name) == name \in DOMAIN fs.files

\* filepath.parent.mkdir(exist_ok=True, parents=True)
Mkdir(fs) == [fs EXCEPT !.dir = TRUE]

\* A torch.save that writes nothing.
TorchSaveLost(fs, state, name) == fs

\* torch.save(state_dict, path)
TorchSave(fs, state, name) ==
    [fs EXCEPT !.files = [n \in (DOMAIN fs.files) \cup {name} |->
                              IF n = name THEN state ELSE fs.files[n]]]

\* path.unlink()
Unlink(fs, name) ==
    [fs EXCEPT !.files = [n \in (DOMAIN fs.files) \ {name} |-> fs.files[n]]]

\* list_path.touch(exist_ok=True)
Touch(fs) == [fs EXCEPT !.hasList = TRUE]

\* open(list_path, "w"); fp.write(text)
WriteList(fs, text) == [fs EXCEPT !.hasList = TRUE, !.list = text]

\* The list get_previous_checkpoints returns (after its touch).
PreviousCheckpoints(fs) ==
    LET lines == ReadLines(fs.list)
    IN  [i \in 1..Len(lines) |-> Strip(lines[i])]


\* ------------------------------------------------------ save_checkpoint
\* A save that puts a new name at the end of the list.
AppendNew(name, previous) ==
    IF ~In(name, previous) THEN previous \o <<name>> ELSE previous

\* Lines 57-58: the name goes to the front unless the list holds it.
PrependNew(name, previous) ==
    IF ~In(name, previous) THEN <<name>> \o previous ELSE previous

\* A pruning loop that forgets the slice and visits the whole list.
PrunedTailAll(previous, max_keep) ==
    IF Len(previous) > max_keep THEN previous ELSE <<>>

\* A pruning loop that starts one entry late.
PrunedTailLate(previous, max_keep) ==
    IF Len(previous) > max_keep THEN SliceFrom(previous, max_keep + 1) ELSE <<>>

\* Lines 59-60: the entries whose files the loop visits.
PrunedTail(previous, max_keep) ==
    IF Len(previous) > max_keep THEN SliceFrom(previous, max_keep) ELSE <<>>

RECURSIVE Prune(_, _)
\* Lines 60-63: unlink every file of the tail that exists.
Prune(fs, tail) ==
    IF Len(tail) = 0 THEN fs
    ELSE Prune(IF Exists(fs, tail[1]) THEN Unlink(fs, tail[1]) ELSE fs, Tail(tail))

\* A rewrite that forgets to cut the list.
ListTextUncut(previous, max_keep) == Join(NL, previous)

\* Lines 64-66: the text written to latest_checkpoint.
ListText(previous, max_keep) == Join(NL, SliceTo(previous, max_keep))

\* A copy that keeps the first best.ckpt.
SaveBestOnce(fs, state, is_best) ==
    IF is_best /\ ~Exists(fs, BestName) THEN TorchSave(fs, state, BestName) ELSE fs

\* Lines 54-55: the copy to best.ckpt.
SaveBest(fs, state, is_best) ==
    IF is_best THEN TorchSave(fs, state, BestName) ELSE fs

\* save_checkpoint as one call: the directory it leaves, and whether it
\* raised (torch.save and the assert of get_previous_checkpoints need the
\* directory).
SaveCheckpoint(fs, state, name, is_best, max_keep) ==
    LET fs1 == Mkdir(fs)
    IN  IF ~fs1.dir THEN [fs |-> fs1, raised |-> TRUE]
        ELSE LET fs2 == TorchSave(fs1, state, name)
                 fs3 == SaveBest(fs2, state, is_best)
                 fs4 == Touch(fs3)
                 previous == PrependNew(name, PreviousCheckpoints(fs4))
                 fs5 == Prune(fs4, PrunedTail(previous, max_keep))
             IN  [fs |-> WriteList(fs5, ListText(previous, max_keep)),
                  raised |-> FALSE]

\* load_best_checkpoint: the state of best.ckpt, or None.
LoadBestCheckpoint(fs) ==
    IF ~Exists(fs, BestName) THEN None ELSE fs.files[BestName]

\* ----------------------------------------------------------------- state
VARIABLES
    fs,        \* the checkpoint directory
    call,      \* the last save_checkpoint call that ended: arguments, outcome
    order,     \* the file names passed to save_checkpoint so far, in order
    keeps,     \* the max_keep values passed so far
    lastBest,  \* the state passed by the latest call with is_best = True, or None
    pc,        \* stepwise models: each caller's position in save_checkpoint
    arg,       \* stepwise models: each caller's arguments
    read,      \* stepwise models: what get_previous_checkpoints returned
    previous,  \* stepwise models: the local previous_checkpoints
    todo,      \* stepwise models: the rest of the pruning loop
    aborted,   \* stepwise models: the caller's call was cut short
    start      \* the directory as the run found it

vars == <<fs, call, order, keeps, lastBest, pc, arg, read, previous, todo,
          aborted, start>>
stepVars == <<pc, arg, read, previous, todo, aborted, start>>
seqVars == <<call, order, keeps, lastBest>>

Callers == {1, 2}

NoCall == [name |-> <<>>, max_keep |-> 0, raised |-> FALSE]

NoArg == [name |-> <<>>, state |-> None, is_best |-> FALSE, max_keep |-> 0]

InitStep ==
    /\ pc = [p \in Callers |-> "idle"]
    /\ arg = [p \in Callers |-> NoArg]
    /\ read = [p \in Callers |-> <<>>]
    /\ previous = [p \in Callers |-> <<>>]
    /\ todo = [p \in Callers |-> <<>>]
    /\ aborted = [p \in Callers |-> FALSE]

InitSeq ==
    /\ call = NoCall
    /\ order = <<>>
    /\ keeps = {}
    /\ lastBest = None

\* Nothing has been saved: the checkpoint directory is empty, or does not
\* exist yet.
Init ==
    /\ fs \in {EmptyFS, Mkdir(EmptyFS)}
    /\ start = EmptyFS
    /\ InitSeq
    /\ InitStep

\* ---------------------------------------------- the sequential program
Save(name, state, is_best, max_keep) ==
    /\ Len(order) < MaxCalls
    /\ LET r == SaveCheckpoint(fs, state, name, is_best, max_keep)
       IN  /\ fs' = r.fs
           /\ call' = [name |-> name, max_keep |-> max_keep, raised |-> r.raised]
    /\ order' = Append(order, name)
    /\ keeps' = keeps \cup {max_keep}
    /\ lastBest' = IF is_best THEN state ELSE lastBest
    /\ UNCHANGED stepVars

\* get_previous_checkpoints(directory) called on its own: the assert stops
\* it when the directory is missing, else it touches latest_checkpoint and
\* returns PreviousCheckpoints.
GetPreviousCheckpoints ==
    /\ fs' = IF fs.dir THEN Touch(fs) ELSE fs
    /\ UNCHANGED seqVars
    /\ UNCHANGED stepVars

Next ==
    \/ \E name \in CkptNames, state \in States, is_best \in BOOLEAN, max_keep \in Keeps :
           Save(name, state, is_best, max_keep)
    \/ GetPreviousCheckpoints

Spec == Init /\ [][Next]_vars

\* The same program, called with any file name.
NextAnyName ==
    \/ \E name \in CkptNames \cup PaddedNames, state \in States,
          is_best \in BOOLEAN, max_keep \in 1..MaxKeep :
           Save(name, state, is_best, max_keep)
    \/ GetPreviousCheckpoints

SpecAnyName == Init /\ [][NextAnyName]_vars


\* ------------------------------------------- save_checkpoint, stepwise
\* Each caller passes its own state_dict.
CallerState(p) == p

RECURSIVE DirsAfter(_)
\* The directories that up to n earlier save_checkpoint calls (of caller 1,
\* none the best) leave behind.
DirsAfter(n) ==
    IF n = 0 THEN {EmptyFS}
    ELSE LET d == DirsAfter(n - 1)
         IN  d \cup {SaveCheckpoint(f, CallerState(1), name, FALSE, max_keep).fs :
                        f \in d, name \in CkptNames, max_keep \in 1..MaxKeep}

InitStepwise ==
    /\ fs \in DirsAfter(PriorSaves)
    /\ start = fs
    /\ InitSeq
    /\ InitStep

Running(p) == ~aborted[p]

\* save_checkpoint is entered.
Enter(p, name, is_best, max_keep) ==
    /\ Running(p) /\ pc[p] = "idle"
    /\ arg' = [arg EXCEPT ![p] = [name |-> name, state |-> CallerState(p),
                                  is_best |-> is_best, max_keep |-> max_keep]]
    /\ pc' = [pc EXCEPT ![p] = "mkdir"]
    /\ UNCHANGED <<fs, read, previous, todo, aborted, start>>
    /\ UNCHANGED seqVars

\* Line 51.
StepMkdir(p) ==
    /\ Running(p) /\ pc[p] = "mkdir"
    /\ fs' = Mkdir(fs)
    /\ pc' = [pc EXCEPT ![p] = "save"]
    /\ UNCHANGED <<arg, read, previous, todo, aborted, start>>
    /\ UNCHANGED seqVars

\* Line 53.
StepSave(p) ==
    /\ Running(p) /\ pc[p] = "save"
    /\ fs' = TorchSave(fs, arg[p].state, arg[p].name)
    /\ pc' = [pc EXCEPT ![p] = "best"]
    /\ UNCHANGED <<arg, read, previous, todo, aborted, start>>
    /\ UNCHANGED seqVars

\* Lines 54-55.
StepBest(p) ==
    /\ Running(p) /\ pc[p] = "best"
    /\ fs' = SaveBest(fs, arg[p].state, arg[p].is_best)
    /\ pc' = [pc EXCEPT ![p] = "read"]
    /\ UNCHANGED <<arg, read, previous, todo, aborted, start>>
    /\ UNCHANGED seqVars

\* Lines 56-60: the list is read, the name put in front, the loop set up.
StepRead(p) ==
    /\ Running(p) /\ pc[p] = "read"
    /\ fs' = Touch(fs)
    /\ LET got == PreviousCheckpoints(Touch(fs))
           list == PrependNew(arg[p].name, got)
       IN  /\ read' = [read EXCEPT ![p] = got]
           /\ previous' = [previous EXCEPT ![p] = list]
           /\ todo' = [todo EXCEPT ![p] = PrunedTail(list, arg[p].max_keep)]
    /\ pc' = [pc EXCEPT ![p] = "prune"]
    /\ UNCHANGED <<arg, aborted, start>>
    /\ UNCHANGED seqVars

\* Lines 60-62: the next entry of the loop, and path.exists().
StepExists(p) ==
    /\ Running(p) /\ pc[p] = "prune"
    /\ IF Len(todo[p]) = 0
       THEN /\ pc' = [pc EXCEPT ![p] = "truncate"]
            /\ todo' = todo
       ELSE IF Exists(fs, todo[p][1])
       THEN /\ pc' = [pc EXCEPT ![p] = "unlink"]
            /\ todo' = todo
       ELSE /\ pc' = pc
            /\ todo' = [todo EXCEPT ![p] = Tail(todo[p])]
    /\ UNCHANGED <<fs, arg, read, previous, aborted, start>>
    /\ UNCHANGED seqVars

\* Line 63: path.unlink() raises FileNotFoundError when the file has gone
\* since path.exists().
StepUnlink(p) ==
    /\ Running(p) /\ pc[p] = "unlink"
    /\ IF Exists(fs, todo[p][1])
       THEN /\ fs' = Unlink(fs, todo[p][1])
            /\ pc' = [pc EXCEPT ![p] = "prune"]
            /\ todo' = [todo EXCEPT ![p] = Tail(todo[p])]
       ELSE /\ fs' = fs
            /\ pc' = [pc EXCEPT ![p] = "raised"]
            /\ todo' = todo
    /\ UNCHANGED <<arg, read, previous, aborted, start>>
    /\ UNCHANGED seqVars

\* Lines 64-65: the list is cut, and open(list_path, "w") empties the file.
StepTruncate(p) ==
    /\ Running(p) /\ pc[p] = "truncate"
    /\ previous' = [previous EXCEPT ![p] = SliceTo(previous[p], arg[p].max_keep)]
    /\ fs' = WriteList(fs, <<>>)
    /\ pc' = [pc EXCEPT ![p] = "write"]
    /\ UNCHANGED <<arg, read, todo, aborted, start>>
    /\ UNCHANGED seqVars

\* Line 66, and the close that ends the with block.
StepWrite(p) ==
    /\ Running(p) /\ pc[p] = "write"
    /\ fs' = WriteList(fs, Join(NL, previous[p]))
    /\ pc' = [pc EXCEPT ![p] = "done"]
    /\ UNCHANGED <<arg, read, previous, todo, aborted, start>>
    /\ UNCHANGED seqVars

\* The call is cut short (an I/O error, the process killed) before its
\* next step; nothing it did is undone.
Abort(p) ==
    /\ Running(p) /\ pc[p] \notin {"idle", "done", "raised"}
    /\ aborted' = [aborted EXCEPT ![p] = TRUE]
    /\ UNCHANGED <<fs, pc, arg, read, previous, todo, start>>
    /\ UNCHANGED seqVars

Step(p) ==
    \/ StepMkdir(p)
    \/ StepSave(p)
    \/ StepBest(p)
    \/ StepRead(p)
    \/ StepExists(p)
    \/ StepUnlink(p)
    \/ StepTruncate(p)
    \/ StepWrite(p)

\* Two callers save into the same directory at the same time.
NextConcurrent ==
    \E p \in Callers :
        \/ \E name \in CkptNames, is_best \in BOOLEAN, max_keep \in 1..MaxKeep :
               Enter(p, name, is_best, max_keep)
        \/ Step(p)

SpecConcurrent == InitStepwise /\ [][NextConcurrent]_vars

\* One caller, whose call may be cut short at any step.
NextAbort ==
    \/ \E name \in CkptNames, is_best \in BOOLEAN, max_keep \in Keeps :
           Enter(1, name, is_best, max_keep)
    \/ Step(1)
    \/ Abort(1)

SpecAbort == InitStepwise /\ [][NextAbort]_vars

\* ------------------------------------------------------------ the claims
Range(s) == {s[i] : i \in 1..Len(s)}

\* The entries of latest_checkpoint, as get_previous_checkpoints returns them.
Manifest == PreviousCheckpoints(fs)

\* The lines of latest_checkpoint as written, without their line ends.
RawManifest ==
    LET lines == ReadLines(fs.list)
    IN  [i \in 1..Len(lines) |->
            IF lines[i][Len(lines[i])] = NL
            THEN SubSeq(lines[i], 1, Len(lines[i]) - 1) ELSE lines[i]]

\* The snapshot files of the directory, best.ckpt aside.
SnapshotFiles == (DOMAIN fs.files) \ {BestName}

Reverse(s) == [i \in 1..Len(s) |-> s[Len(s) + 1 - i]]

Distinct(s) == \A i, j \in 1..Len(s) : i # j => s[i] # s[j]

Saved == Len(order) >= 1 /\ ~call.raised

\* C1: after every save_checkpoint call (any file names, max_keep >= 1,
\* from an empty directory) every file name written in latest_checkpoint
\* names a file that exists.
C1_ListedFilesExist ==
    (Saved /\ \A k \in keeps : k >= 1) =>
        \A i \in 1..Len(RawManifest) : Exists(fs, RawManifest[i])

\* C2: when every save_checkpoint call so far passed the same max_keep = k,
\* k >= 1, latest_checkpoint holds at most k entries.
C2_AtMostMaxKeep ==
    \A k \in 1..(MaxKeep + 1) : (Saved /\ keeps = {k}) => Len(Manifest) <= k

\* Three saves with max_keep = 2 left two entries: the list was cut.
C2_Witness ==
    Saved /\ keeps = {2} /\ Len(order) = 3 /\ Distinct(order) /\ Len(Manifest) = 2

SameKeep == Cardinality(keeps) = 1 /\ \A k \in keeps : k >= 1

\* C5: after every save_checkpoint call with max_keep >= 1 the first entry
\* of latest_checkpoint is the file name just saved, also when the list
\* held that name further back.  (Stated for calls that all pass the same
\* max_keep: it fails even there.)
C5_SavedNameFirst ==
    (Saved /\ SameKeep) =>
        Len(Manifest) >= 1 /\ Manifest[1] = call.name

C7_ResaveChangesNothing ==
    /\ Distinct(Manifest)
    /\ (Saved /\ SameKeep) =>
          \A state \in States, is_best \in BOOLEAN :
              LET again == SaveCheckpoint(fs, state, call.name, is_best, call.max_keep).fs
              IN  /\ PreviousCheckpoints(again) = Manifest
                  /\ Len(Manifest) >= 1 /\ Manifest[1] = call.name

\* Both concurrent calls have returned.
BothDone == \A p \in Callers : pc[p] = "done"

\* The two calls saved different names, both new to the directory, with
\* max_keep >= 1, and neither found the other's name in the list it read.
NeitherSawTheOther ==
    /\ arg[1].name # arg[2].name
    /\ \A p \in Callers : ~In(arg[p].name, PreviousCheckpoints(start))
    /\ arg[1].max_keep >= 1 /\ arg[2].max_keep >= 1
    /\ ~In(arg[2].name, read[1])
    /\ ~In(arg[1].name, read[2])

\* C8: two concurrent save_checkpoint calls can return with
\* latest_checkpoint and the directory in disagreement.  Whenever the two
\* save different new names and neither finds the other's name in the list
\* it read, they do: the file one of them wrote exists and
\* latest_checkpoint does not name it.
C8_LostUpdate ==
    (BothDone /\ NeitherSawTheOther) =>
        \E p \in Callers : Exists(fs, arg[p].name) /\ ~In(arg[p].name, Manifest)

\* Both calls have returned, and the file one of them wrote exists but is
\* not in latest_checkpoint.
C8_Witness ==
    /\ BothDone /\ NeitherSawTheOther
    /\ \A p \in Callers : Exists(fs, arg[p].name)
    /\ ~In(arg[1].name, Manifest) /\ In(arg[2].name, Manifest)

\* The call of caller 1 was cut short after line 53 and before the
\* rewrite of lines 64-66.
AbortedBeforeRewrite ==
    aborted[1] /\ pc[1] \in {"best", "read", "prune", "unlink", "truncate"}

\* The effects come in the order of the code: the snapshot, best.ckpt, the
\* read, the deletions, the rewrite.
EffectsInOrder ==
    /\ pc[1] \in {"idle", "mkdir", "save"} =>
          fs.files = start.files /\ fs.list = start.list
    /\ pc[1] \in {"best", "read"} =>
          /\ Exists(fs, arg[1].name) /\ fs.files[arg[1].name] = arg[1].state
          /\ \A n \in DOMAIN start.files : Exists(fs, n)
    /\ (pc[1] = "read" /\ arg[1].is_best) => LoadBestCheckpoint(fs) = arg[1].state
    /\ pc[1] \in {"best", "read", "prune", "unlink", "truncate"} =>
          fs.list = start.list
    /\ pc[1] = "done" => SnapshotFiles = Range(Manifest)

\* C9, as claimed: the effects come in the fixed order and a call cut
\* short before the rewrite leaves the directory and latest_checkpoint in
\* disagreement: the new snapshot is not listed, or a listed file is gone.
\* (Stated for max_keep >= 1: it fails even there.)
C9_AbortLeavesDisagreement ==
    /\ EffectsInOrder
    /\ (AbortedBeforeRewrite /\ arg[1].max_keep >= 1) =>
          \/ Exists(fs, arg[1].name) /\ ~In(arg[1].name, Manifest)
          \/ \E i \in 1..Len(Manifest) : ~Exists(fs, Manifest[i])

\* C9, amended: the effects come in the fixed order, and a call with
\* max_keep >= 1 that saves a name latest_checkpoint did not hold, cut
\* short before the rewrite, leaves a snapshot file that latest_checkpoint
\* does not name.
C9_AbortLeavesNewFileUnlisted ==
    /\ EffectsInOrder
    /\ (/\ AbortedBeforeRewrite
        /\ arg[1].max_keep >= 1
        /\ ~In(arg[1].name, PreviousCheckpoints(start))) =>
          Exists(fs, arg[1].name) /\ ~In(arg[1].name, Manifest)

\* Cut short after the pruning: the new file is not listed, and the file
\* the list still names is deleted.
C9_Witness ==
    /\ AbortedBeforeRewrite /\ pc[1] = "truncate"
    /\ arg[1].max_keep >= 1
    /\ ~In(arg[1].name, PreviousCheckpoints(start))
    /\ Exists(fs, arg[1].name) /\ ~In(arg[1].name, Manifest)
    /\ \E i \in 1..Len(Manifest) : ~Exists(fs, Manifest[i])

\* C10: a save_checkpoint call with max_keep <= 0 does not raise; the
\* files it deletes are the entries it drops from the list; with
\* max_keep = 0 the list is written empty and every listed file, the one
\* just written too, is deleted.
C10_NonPositiveKeep ==
    [][(Len(order') = Len(order) + 1 /\ call'.max_keep <= 0) =>
          LET entries == Range(PreviousCheckpoints(fs)) \cup {call'.name}
              kept == Range(PreviousCheckpoints(fs'))
              present == ((DOMAIN fs.files) \ {BestName}) \cup {call'.name}
              after == (DOMAIN fs'.files) \ {BestName}
          IN  /\ ~call'.raised
              /\ kept \subseteq entries
              /\ after = present \ (entries \ kept)
              /\ call'.max_keep = 0 =>
                    /\ fs'.list = <<>>
                    /\ \A n \in entries : ~Exists(fs', n)]_vars

\* A save with max_keep = 0 after a save with max_keep = 2: nothing is left.
C10_Witness ==
    /\ Saved /\ Len(order) = 2 /\ Distinct(order)
    /\ keeps = {0, 2} /\ call.max_keep = 0
    /\ fs.hasList /\ fs.list = <<>>
    /\ SnapshotFiles = {}

====
